---- MODULE Spec2Model ----
(***************************************************************************)
(* Model of the BAUM VarioPro braille display driver (baumVarioPro.py):    *)
(* the ESC transport decoder, the packetizing state machine, the module    *)
(* registry with its per-module decoders, the output path and the driver   *)
(* construction.                                                           *)
(*                                                                         *)
(* Bytes are integers 0..255.  Python sequences are TLA+ sequences, read   *)
(* with 0-based helpers (Idx, PySlice).  A Python int used as a key mask   *)
(* is a natural number inside the module objects; a mask handed to an      *)
(* InputGesture is represented by the set of indices of its set bits,      *)
(* because the routing key mask has up to 80 bits.  A Python exception is  *)
(* a "raised" flag in the result of the operator that models the call.     *)
(***************************************************************************)
EXTENDS Integers, Sequences, FiniteSets, TLC

\* ------------------------------------------------------------ bounds ----
\* longest packet buffer the model lets the assembler grow to
MaxPkt == 24
\* the same where frames with a payload of 0x1B bytes are received
MaxLongPkt == 30
\* how far below zero the model lets vp_payload_len count
MaxUnderrun == 2
MaxPorts == 2

\* ------------------------------------------------- program constants ----
ESC == 27
BAUM_VP_DEVICE_DETECTION == 80
BAUM_VP_DYNAMIC_DATA_BLOCK == 81

VP_MAIN_80 == <<128, 65>>
VP_MAIN_64 == <<129, 65>>
TASO == <<149, 65>>
STATUS == <<144, 65>>
TELEPHONE == <<145, 65>>

BAUM_ROUTING_KEYS == "VP_RK"
BAUM_DISPLAY_KEYS == "VP_DK"
BAUM_WHEELS_UP == "VP_WU"
BAUM_WHEELS_DOWN == "VP_WD"
BAUM_WHEELS_PUSH == "VP_WP"
BAUM_TASO_NC_KEYS == "TASO_NCK"
BAUM_TASO_SW_KEYS == "TASO_SWK"
BAUM_TASO_SW_RELEASES == "TASO_SWR"
BAUM_TASO_HORIZONTAL_SLIDER == "TASO_HS"
BAUM_TASO_VERTICAL_SLIDER == "TASO_VS"
BAUM_TASO_WHEEL == "TASO_W"
BAUM_TELEPHONE_KCW_KEYS == "TM_KCWK"
BAUM_TELEPHONE_WHEEL == "TM_W"
BAUM_TELEPHONE_CELLS_NUMBER == 12
BAUM_STATUS_C_KEYS == "SM_CK"
BAUM_STATUS_CELLS_NUMBER == 4

VPS_IDLE == 0
VPS_W4_INFOTYPE == 1
VPS_W4_LENGTH == 2
VPS_GET_PAYLOAD == 3

\* number of waitForRead rounds of the constructor
ARRIVAL_WAITS == 10

\* ------------------------------------------------- Python primitives ----
Min(a, b) == IF a < b THEN a ELSE b

Abs(a) == IF a < 0 THEN 0 - a ELSE a

\* s[i], 0-based
Idx(s, i) == s[i + 1]

\* s[a:b], 0-based, clipped to the sequence like a Python slice
PySlice(s, a, b) == SubSeq(s, a + 1, Min(b, Len(s)))

\* s[a:]
PyTail(s, a) == SubSeq(s, a + 1, Len(s))

\* a & b
RECURSIVE BitAnd(_, _)
BitAnd(a, b) ==
    IF a = 0 \/ b = 0 THEN 0
    ELSE (a % 2) * (b % 2) + 2 * BitAnd(a \div 2, b \div 2)

\* a | b
RECURSIVE BitOr(_, _)
BitOr(a, b) ==
    IF a = 0 THEN b
    ELSE IF b = 0 THEN a
    ELSE (IF a % 2 = 1 \/ b % 2 = 1 THEN 1 ELSE 0)
         + 2 * BitOr(a \div 2, b \div 2)

\* a << n  and  a >> n
ShiftLeft(a, n) == a * (2 ^ n)
ShiftRight(a, n) == a \div (2 ^ n)

\* the indices of the bits set in n, starting the count at index i
RECURSIVE BitsFrom(_, _)
BitsFrom(n, i) ==
    IF n = 0 THEN {}
    ELSE (IF n % 2 = 1 THEN {i} ELSE {}) \cup BitsFrom(n \div 2, i + 1)

\* the mask n as the set of its set bits
Bits(n) == BitsFrom(n, 0)

\* unpack("b", bytes([w]))[0]
Signed8(w) == IF w >= 128 THEN w - 256 ELSE w

\* n copies of e
Repeat(e, n) == [i \in 1..n |-> e]

\* the element of a one element set; { F(r) : r \in {call} } holds the
\* result of a call once, as the local variable of the code does
Only(S) == CHOOSE x \in S : TRUE

\* ---------------------------------------------------------- gestures ----
\* InputGesture(keysDown) handed to inputCore.manager.executeGesture; a
\* NoInputGestureAction of the collaborator is swallowed by every caller.
InputGesture(group, keys) == [group |-> group, keys |-> keys]

\* result of a call that returned normally / that raised
Ok(evs, m) == [raised |-> FALSE, events |-> evs, m |-> m]
Raise(m) == [raised |-> TRUE, events |-> <<>>, m |-> m]

\* ----------------------------------------------------- module objects ----
\* VarioProModule.__init__; the attributes a subclass adds are carried by
\* every record (0 where the class does not set them) so that the registry
\* is a function into one record type.
VarioProModule(module_id) ==
    [module_type      |-> PySlice(module_id, 0, 2),
     module_id        |-> module_id,
     has_braille      |-> FALSE,
     number_cells     |-> 0,
     input_handler    |-> "None",
     output_handler   |-> "braille_out_send",
     cumul_d_keys     |-> 0,
     prev_ths         |-> 0,
     prev_tvs         |-> 0,
     prev_tnckeys     |-> 0,
     prev_tswkeys     |-> 0,
     prev_sm_c_keys   |-> 0,
     prev_tm_kcw_keys |-> 0]

\* the Python value None where the driver holds a module reference
None == [module_id |-> <<>>, number_cells |-> 0, output_handler |-> "None"]

\* what the driver reads through self.mainModule / statusModule /
\* telephoneModule: the attributes of the object that never change
Ref(m) == [module_id      |-> m.module_id,
           number_cells   |-> m.number_cells,
           output_handler |-> m.output_handler]

\* ---- main module decoders ----
process_main_display_keys_lost(m, d_keys) ==
    IF d_keys # 0
    THEN Ok(<<>>, [m EXCEPT !.cumul_d_keys = d_keys])
    ELSE Ok(<<InputGesture(BAUM_DISPLAY_KEYS, Bits(m.cumul_d_keys))>>,
            [m EXCEPT !.cumul_d_keys = 0])

\* cumul_d_keys is set by VarioProMainModule80.__init__, which the 64 cell
\* class skips: on its objects the read raises AttributeError
process_main_display_keys(m, d_keys) ==
    IF m.module_type = VP_MAIN_64 THEN Raise(m)
    ELSE IF d_keys # 0
    THEN Ok(<<>>, [m EXCEPT !.cumul_d_keys = BitOr(@, d_keys)])
    ELSE Ok(<<InputGesture(BAUM_DISPLAY_KEYS, Bits(m.cumul_d_keys))>>,
            [m EXCEPT !.cumul_d_keys = 0])

\* r_keys is the set of set bits of the Python long
process_main_routing_keys(m, r_keys) ==
    IF r_keys = {}
    THEN Ok(<<>>, m)
    ELSE Ok(<<InputGesture(BAUM_ROUTING_KEYS, r_keys)>>, m)

\* the gesture the code sends for wheel wi (0-based) after the inner loop:
\* the try block follows the loop, so one gesture per wheel that moved
RECURSIVE WheelGestures(_, _)
WheelGestures(wheels, wi) ==
    IF wi >= Len(wheels) THEN <<>>
    ELSE LET ws == Signed8(Idx(wheels, wi))
             wd == IF ws > 0
                   THEN InputGesture(BAUM_WHEELS_UP, Bits(ShiftLeft(1, wi)))
                   ELSE InputGesture(BAUM_WHEELS_DOWN, Bits(ShiftLeft(1, wi)))
         IN (IF ws # 0 THEN <<wd>> ELSE <<>>) \o WheelGestures(wheels, wi + 1)

process_main_wheel_rotation(m, wheels) == Ok(WheelGestures(wheels, 0), m)

process_main_wheel_buttons(m, wp) ==
    IF wp = 0
    THEN Ok(<<>>, m)
    ELSE Ok(<<InputGesture(BAUM_WHEELS_PUSH, Bits(wp))>>, m)

\* r_keys |= pkt[i + off] << (i * 8) for i in range(klen)
RoutingBits(pkt, off, klen) ==
    UNION { { 8 * i + j : j \in Bits(Idx(pkt, i + off)) } : i \in 0..(klen - 1) }

process_main_data_packet(m, pkt) ==
    IF Len(pkt) = 0 THEN Raise(m)
    ELSE
    LET stat == Idx(pkt, 0)
        is80 == m.module_type = VP_MAIN_80
    IN  IF BitAnd(stat, 8) # 0 THEN
            LET klen == m.number_cells \div 8
                off  == IF is80 THEN 8 ELSE 7
            IN  IF klen > 0 /\ Len(pkt) < off + klen
                THEN Raise(m)
                ELSE process_main_routing_keys(m, RoutingBits(pkt, off, klen))
        ELSE IF BitAnd(stat, 4) # 0 THEN
            LET at == IF is80 THEN 7 ELSE 6
            IN  IF Len(pkt) <= at THEN Raise(m)
                ELSE process_main_display_keys(m, Idx(pkt, at))
        ELSE IF BitAnd(stat, 2) # 0 THEN
            LET at == IF is80 THEN 6 ELSE 5
            IN  IF Len(pkt) <= at THEN Raise(m)
                ELSE process_main_wheel_buttons(m, Idx(pkt, at))
        ELSE IF BitAnd(stat, 1) # 0 THEN
            process_main_wheel_rotation(m,
                IF is80 THEN PySlice(pkt, 2, 6) ELSE PySlice(pkt, 2, 5))
        ELSE Ok(<<>>, m)

\* ---- TASO module decoders ----
process_taso_wheel_rotation(m, wd) ==
    LET ws == Signed8(wd)
    IN  Ok(Repeat(InputGesture(BAUM_TASO_WHEEL,
                               IF ws > 0 THEN Bits(ShiftLeft(1, 1)) ELSE Bits(1)),
                  Abs(ws)), m)

process_taso_vertical_slider_position_stale(m, val) ==
    LET vs == Abs(m.prev_tvs - val)
    IN  Ok(Repeat(InputGesture(BAUM_TASO_VERTICAL_SLIDER,
                               IF val < m.prev_tvs THEN Bits(ShiftLeft(1, 1))
                                                   ELSE Bits(1)),
                  vs),
           m)

process_taso_vertical_slider_position(m, val) ==
    LET vs == Abs(m.prev_tvs - val)
    IN  Ok(Repeat(InputGesture(BAUM_TASO_VERTICAL_SLIDER,
                               IF val < m.prev_tvs THEN Bits(ShiftLeft(1, 1))
                                                   ELSE Bits(1)),
                  vs),
           [m EXCEPT !.prev_tvs = val])

process_taso_horizontal_slider_position_as_vertical(m, val) ==
    LET hs == Abs(m.prev_ths - val)
    IN  Ok(Repeat(InputGesture(BAUM_TASO_HORIZONTAL_SLIDER,
                               IF val < m.prev_ths THEN Bits(ShiftLeft(1, 1))
                                                   ELSE Bits(1)),
                  hs),
           [m EXCEPT !.prev_ths = val])

process_taso_horizontal_slider_position(m, val) ==
    LET hs == Abs(m.prev_ths - val)
    IN  Ok(Repeat(InputGesture(BAUM_TASO_HORIZONTAL_SLIDER,
                               IF val > m.prev_ths THEN Bits(ShiftLeft(1, 1))
                                                   ELSE Bits(1)),
                  hs),
           [m EXCEPT !.prev_ths = val])

process_taso_keys_level(m, tk) ==
    IF Len(tk) < 3 THEN Raise(m)
    ELSE
    LET tnckeys == BitOr(BitOr(Idx(tk, 0), ShiftLeft(Idx(tk, 1), 8)),
                         ShiftLeft(BitAnd(Idx(tk, 2), 7), 12))
        tswkeys == BitAnd(ShiftRight(Idx(tk, 2), 5), 7)
        nc == IF tnckeys # 0
              THEN <<InputGesture(BAUM_TASO_NC_KEYS, Bits(tnckeys))>>
              ELSE <<>>
        sw == IF m.prev_tswkeys # tswkeys
              THEN IF tswkeys # 0
                   THEN <<InputGesture(BAUM_TASO_SW_KEYS, Bits(tswkeys))>>
                   ELSE <<InputGesture(BAUM_TASO_SW_RELEASES, Bits(1))>>
              ELSE <<>>
    IN  Ok(nc \o sw,
           [m EXCEPT !.prev_tnckeys = tnckeys, !.prev_tswkeys = tswkeys])

process_taso_keys(m, tk) ==
    IF Len(tk) < 3 THEN Raise(m)
    ELSE
    LET tnckeys == BitOr(BitOr(Idx(tk, 0), ShiftLeft(Idx(tk, 1), 8)),
                         ShiftLeft(BitAnd(Idx(tk, 2), 7), 12))
        tswkeys == BitAnd(ShiftRight(Idx(tk, 2), 5), 7)
        nc == IF m.prev_tnckeys # tnckeys /\ tnckeys # 0
              THEN <<InputGesture(BAUM_TASO_NC_KEYS, Bits(tnckeys))>>
              ELSE <<>>
        sw == IF m.prev_tswkeys # tswkeys
              THEN IF tswkeys # 0
                   THEN <<InputGesture(BAUM_TASO_SW_KEYS, Bits(tswkeys))>>
                   ELSE <<InputGesture(BAUM_TASO_SW_RELEASES, Bits(1))>>
              ELSE <<>>
    IN  Ok(nc \o sw,
           [m EXCEPT !.prev_tnckeys = tnckeys, !.prev_tswkeys = tswkeys])

process_taso_data_packet_every_bit(m, pkt) ==
    IF Len(pkt) < 5 THEN Raise(m)
    ELSE
    LET stat == Idx(pkt, 0)
        h == IF BitAnd(stat, 4) # 0
             THEN process_taso_horizontal_slider_position(m, Idx(pkt, 4))
             ELSE Ok(<<>>, m)
        v == IF BitAnd(stat, 2) # 0
             THEN process_taso_vertical_slider_position(h.m, Idx(pkt, 3))
             ELSE Ok(<<>>, h.m)
    IN  IF BitAnd(stat, 8) # 0 THEN process_taso_keys(m, PySlice(pkt, 5, 8))
        ELSE IF BitAnd(stat, 6) # 0 THEN Ok(h.events \o v.events, v.m)
        ELSE IF BitAnd(stat, 1) # 0
        THEN process_taso_wheel_rotation(m, Idx(pkt, 2))
        ELSE Ok(<<>>, m)

process_taso_data_packet(m, pkt) ==
    IF Len(pkt) = 0 THEN Raise(m)
    ELSE
    LET stat == Idx(pkt, 0)
    IN  IF BitAnd(stat, 8) # 0 THEN process_taso_keys(m, PySlice(pkt, 5, 8))
        ELSE IF BitAnd(stat, 4) # 0 THEN
            IF Len(pkt) <= 4 THEN Raise(m)
            ELSE process_taso_horizontal_slider_position(m, Idx(pkt, 4))
        ELSE IF BitAnd(stat, 2) # 0 THEN
            IF Len(pkt) <= 3 THEN Raise(m)
            ELSE process_taso_vertical_slider_position(m, Idx(pkt, 3))
        ELSE IF BitAnd(stat, 1) # 0 THEN
            IF Len(pkt) <= 2 THEN Raise(m)
            ELSE process_taso_wheel_rotation(m, Idx(pkt, 2))
        ELSE Ok(<<>>, m)

\* ---- status module decoders ----
process_status_module_keys(m, sk) ==
    LET sm_c_keys == BitAnd(sk, 15)
    IN  Ok(IF m.prev_sm_c_keys # sm_c_keys /\ sm_c_keys # 0
           THEN <<InputGesture(BAUM_STATUS_C_KEYS, Bits(sm_c_keys))>>
           ELSE <<>>,
           [m EXCEPT !.prev_sm_c_keys = sm_c_keys])

process_status_module_data_packet(m, pkt) ==
    IF Len(pkt) = 0 THEN Raise(m)
    ELSE IF BitAnd(Idx(pkt, 0), 2) # 0 THEN
        IF Len(pkt) <= 2 THEN Raise(m)
        ELSE process_status_module_keys(m, Idx(pkt, 2))
    ELSE Ok(<<>>, m)

\* ---- telephone module decoders ----
process_telephone_module_keys(m, tk) ==
    IF Len(tk) < 3 THEN Raise(m)
    ELSE
    LET tm_kcw_keys ==
            BitOr(BitOr(BitOr(Idx(tk, 1), ShiftLeft(Idx(tk, 2), 8)),
                        ShiftLeft(BitAnd(Idx(tk, 0), 15), 16)),
                  ShiftLeft(ShiftRight(Idx(tk, 0), 7), 20))
    IN  Ok(IF m.prev_tm_kcw_keys # tm_kcw_keys /\ tm_kcw_keys # 0
           THEN <<InputGesture(BAUM_TELEPHONE_KCW_KEYS, Bits(tm_kcw_keys))>>
           ELSE <<>>,
           [m EXCEPT !.prev_tm_kcw_keys = tm_kcw_keys])

process_telephone_module_wheel_rotation(m, wd) ==
    LET ws == Signed8(wd)
    IN  Ok(Repeat(InputGesture(BAUM_TELEPHONE_WHEEL,
                               IF ws > 0 THEN Bits(ShiftLeft(1, 1)) ELSE Bits(1)),
                  Abs(ws)), m)

process_telephone_module_data_packet(m, pkt) ==
    IF Len(pkt) = 0 THEN Raise(m)
    ELSE
    LET stat == Idx(pkt, 0)
    IN  IF BitAnd(stat, 2) # 0
        THEN process_telephone_module_keys(m, PySlice(pkt, 3, 8))
        ELSE IF BitAnd(stat, 1) # 0 THEN
            IF Len(pkt) <= 2 THEN Raise(m)
            ELSE process_telephone_module_wheel_rotation(m, Idx(pkt, 2))
        ELSE Ok(<<>>, m)

\* m.input_handler(pkt): the bound method the constructor stored, or None,
\* whose call raises TypeError
input_handler(m, pkt) ==
    CASE m.input_handler = "process_main_data_packet" ->
            process_main_data_packet(m, pkt)
      [] m.input_handler = "process_taso_data_packet" ->
            process_taso_data_packet(m, pkt)
      [] m.input_handler = "process_status_module_data_packet" ->
            process_status_module_data_packet(m, pkt)
      [] m.input_handler = "process_telephone_module_data_packet" ->
            process_telephone_module_data_packet(m, pkt)
      [] OTHER -> Raise(m)

\* ---- constructors: the new module and the driver d after its side effects
VarioProMainModule80(d, module_id) ==
    LET m == [VarioProModule(module_id) EXCEPT
                  !.number_cells = 80,
                  !.input_handler = "process_main_data_packet",
                  !.cumul_d_keys = 0]
    IN  [m |-> m,
         d |-> [d EXCEPT !.numCells = 80, !.mainModule = Ref(m)]]

\* super(VarioProMainModule80, self).__init__ runs VarioProModule.__init__
\* only: VarioProMainModule80.__init__ is skipped, input_handler stays None
VarioProMainModule64(d, module_id) ==
    LET m == [VarioProModule(module_id) EXCEPT !.number_cells = 64]
    IN  [m |-> m,
         d |-> [d EXCEPT !.numCells = 64, !.mainModule = Ref(m)]]

VarioProTasoModule(d, module_id) ==
    LET m == [VarioProModule(module_id) EXCEPT
                  !.input_handler = "process_taso_data_packet"]
    IN  [m |-> m, d |-> d]

VarioProStatusModule(d, module_id) ==
    LET m == [VarioProModule(module_id) EXCEPT
                  !.number_cells = 4,
                  !.has_braille = TRUE,
                  !.input_handler = "process_status_module_data_packet"]
    IN  [m |-> m, d |-> [d EXCEPT !.statusModule = Ref(m)]]

VarioProTelephoneModule(d, module_id) ==
    LET m == [VarioProModule(module_id) EXCEPT
                  !.number_cells = 12,
                  !.has_braille = TRUE,
                  !.input_handler = "process_telephone_module_data_packet"]
    IN  [m |-> m, d |-> [d EXCEPT !.telephoneModule = Ref(m)]]

\* the keys of VP_MODULE_CLASSES_MAP
KnownTypes == {VP_MAIN_80, VP_MAIN_64, TASO, TELEPHONE, STATUS}

\* VP_MODULE_CLASSES_MAP[type](self, id), for type in KnownTypes
VP_MODULE_CLASSES_MAP(type, d, module_id) ==
    CASE type = VP_MAIN_80 -> VarioProMainModule80(d, module_id)
      [] type = VP_MAIN_64 -> VarioProMainModule64(d, module_id)
      [] type = TASO       -> VarioProTasoModule(d, module_id)
      [] type = TELEPHONE  -> VarioProTelephoneModule(d, module_id)
      [] type = STATUS     -> VarioProStatusModule(d, module_id)

\* ------------------------------------------------------- output path ----
EscapePayload_raw(payload) == payload

\* dep: every payload byte, a 0x1B twice (the loop over the payload,
\* evaluated by halves)
RECURSIVE EscapePayload(_)
EscapePayload(payload) ==
    IF Len(payload) <= 1
    THEN (IF payload = <<ESC>> THEN <<ESC, ESC>> ELSE payload)
    ELSE EscapePayload(SubSeq(payload, 1, Len(payload) \div 2))
         \o EscapePayload(SubSeq(payload, Len(payload) \div 2 + 1,
                                 Len(payload)))

\* the byte list send_packet hands to self._dev.write
send_packet(cmd, payload) ==
    LET depl == Len(payload)
    IN  <<ESC, cmd, depl>>
        \o (IF depl = ESC THEN <<depl>> ELSE <<>>)
        \o EscapePayload(payload)

vp_query_modules == send_packet(BAUM_VP_DEVICE_DETECTION, <<0, 0, 0, 0, 4>>)

acknowledge_device_arrival_query(module_info) ==
    send_packet(BAUM_VP_DEVICE_DETECTION, module_info \o <<4>>)

acknowledge_device_arrival(module_info) ==
    send_packet(BAUM_VP_DEVICE_DETECTION, module_info \o <<1>>)

\* the frames braille_out_send writes: one, or none for empty arguments
braille_out_send(cells, moduleId) ==
    IF cells # <<>> /\ moduleId # <<>>
    THEN <<send_packet(BAUM_VP_DYNAMIC_DATA_BLOCK,
                       moduleId \o <<0, 0, Len(cells)>> \o cells)>>
    ELSE <<>>

\* display(cells) statement by statement; each result names the frames
\* written, whether the statement raised, and where display goes on
Shown(written, next) == [written |-> written, raised |-> FALSE, next |-> next]

\* "if self.mainModule and self.mainModule.output_handler:" and the call of
\* the output handler with cells[:number_cells]
display_main(d, cells) ==
    IF d.mainModule # None /\ d.mainModule.output_handler # "None"
    THEN Shown(braille_out_send(PySlice(cells, 0, d.mainModule.number_cells),
                                d.mainModule.module_id),
               "check")
    ELSE Shown(<<>>, "status")

\* "if len(cells) == self.mainModule.number_cells: return"
display_check(d, cells) ==
    IF Len(cells) = d.mainModule.number_cells
    THEN Shown(<<>>, "out")
    ELSE Shown(<<>>, "status")

\* the status module's statement; its slice reads
\* self.mainModule.number_cells: AttributeError when mainModule is None
display_status(d, cells) ==
    IF d.statusModule # None /\ d.statusModule.output_handler # "None"
    THEN IF d.mainModule = None
         THEN [written |-> <<>>, raised |-> TRUE, next |-> "out"]
         ELSE Shown(braille_out_send(
                        PySlice(cells, d.mainModule.number_cells,
                                d.mainModule.number_cells
                                  + BAUM_STATUS_CELLS_NUMBER),
                        d.statusModule.module_id),
                    "telephone")
    ELSE Shown(<<>>, "telephone")

\* the telephone module's statement, with the same read of mainModule
display_telephone(d, cells) ==
    IF d.telephoneModule # None /\ d.telephoneModule.output_handler # "None"
    THEN IF d.mainModule = None
         THEN [written |-> <<>>, raised |-> TRUE, next |-> "out"]
         ELSE Shown(braille_out_send(
                        PySlice(cells,
                                d.mainModule.number_cells
                                  + BAUM_STATUS_CELLS_NUMBER,
                                d.mainModule.number_cells
                                  + BAUM_STATUS_CELLS_NUMBER
                                  + BAUM_TELEPHONE_CELLS_NUMBER),
                        d.telephoneModule.module_id),
                    "out")
    ELSE Shown(<<>>, "out")

\* ---------------------------------------------------------- registry ----
\* f[k] = v  and  del f[k]  on a dict
Put(f, k, v) == [x \in (DOMAIN f) \cup {k} |-> IF x = k THEN v ELSE f[x]]
Del(f, k) == [x \in (DOMAIN f) \ {k} |-> f[x]]

\* result of process_packet: driver after the call, frames written,
\* gestures sent, and whether an exception left the call
Done(d, written, events) ==
    [d |-> d, written |-> written, events |-> events, raised |-> FALSE]
Escaped(d) == [d |-> d, written |-> <<>>, events |-> <<>>, raised |-> TRUE]

\* pkt[10] == 0x01: a KeyError of the class map is caught and logged
device_arrival(d, pkt) ==
    LET id   == PySlice(pkt, 2, 6)
        type == PySlice(pkt, 2, 4)
    IN  IF type \notin KnownTypes
        THEN Done(d, <<>>, <<>>)
        ELSE Only({ Done([c.d EXCEPT !.connected_modules =
                                         Put(@, c.m.module_id, c.m)],
                         <<acknowledge_device_arrival(id)>>, <<>>) :
                    c \in {VP_MODULE_CLASSES_MAP(type, d, id)} })

device_removal_kept(d, pkt) == Done(d, <<>>, <<>>)

\* pkt[10] == 0x02: a KeyError of the del is caught and logged
device_removal(d, pkt) ==
    LET id == PySlice(pkt, 2, 6)
    IN  IF id \in DOMAIN d.connected_modules
        THEN Done([d EXCEPT !.connected_modules = Del(@, id)], <<>>, <<>>)
        ELSE Done(d, <<>>, <<>>)

dynamic_data_block_uncaught(d, pkt) ==
    LET id == PySlice(pkt, 2, 6)
    IN  IF id \notin DOMAIN d.connected_modules
        THEN Escaped(d)
        ELSE Only({ IF r.raised THEN Escaped(d)
                    ELSE Done([d EXCEPT !.connected_modules[id] = r.m],
                              <<>>, r.events) :
                    r \in {input_handler(d.connected_modules[id],
                                         PyTail(pkt, 6))} })

dynamic_data_block_shared(d, pkt) ==
    LET id == PySlice(pkt, 2, 6)
    IN  IF id \notin DOMAIN d.connected_modules
        THEN Escaped(d)
        ELSE Only({ Done([d EXCEPT !.connected_modules =
                             [x \in DOMAIN @ |->
                                 IF x = id THEN r.m
                                 ELSE [@[x] EXCEPT
                                    !.cumul_d_keys = r.m.cumul_d_keys,
                                    !.prev_ths = r.m.prev_ths,
                                    !.prev_tvs = r.m.prev_tvs,
                                    !.prev_tnckeys = r.m.prev_tnckeys,
                                    !.prev_tswkeys = r.m.prev_tswkeys,
                                    !.prev_sm_c_keys = r.m.prev_sm_c_keys,
                                    !.prev_tm_kcw_keys =
                                        r.m.prev_tm_kcw_keys]]],
                         <<>>, r.events) :
                    r \in {input_handler(d.connected_modules[id],
                                         PyTail(pkt, 6))} })

\* the registry lookup is outside the try: its KeyError leaves the call;
\* whatever the handler raises is caught and logged
dynamic_data_block(d, pkt) ==
    LET id == PySlice(pkt, 2, 6)
    IN  IF id \notin DOMAIN d.connected_modules
        THEN Escaped(d)
        ELSE Only({ Done([d EXCEPT !.connected_modules[id] = r.m],
                         <<>>, r.events) :
                    r \in {input_handler(d.connected_modules[id],
                                         PyTail(pkt, 6))} })

process_packet_short(d, pkt) ==
    IF Idx(pkt, 0) = BAUM_VP_DEVICE_DETECTION THEN
        IF Len(pkt) = 7 THEN
            IF Idx(pkt, 6) = 1
            THEN device_arrival(d, pkt \o <<0, 0, 0, 0>>)
            ELSE IF Idx(pkt, 6) = 2
            THEN device_removal(d, pkt \o <<0, 0, 0, 0>>)
            ELSE Done(d, <<>>, <<>>)
        ELSE Done(d, <<>>, <<>>)
    ELSE IF Idx(pkt, 0) = BAUM_VP_DYNAMIC_DATA_BLOCK THEN
        dynamic_data_block(d, pkt)
    ELSE Done(d, <<>>, <<>>)

process_packet(d, pkt) ==
    IF Idx(pkt, 0) = BAUM_VP_DEVICE_DETECTION THEN
        IF Len(pkt) = 11 THEN
            IF Idx(pkt, 10) = 1 THEN device_arrival(d, pkt)
            ELSE IF Idx(pkt, 10) = 2 THEN device_removal(d, pkt)
            ELSE Done(d, <<>>, <<>>)
        ELSE Done(d, <<>>, <<>>)
    ELSE IF Idx(pkt, 0) = BAUM_VP_DYNAMIC_DATA_BLOCK THEN
        dynamic_data_block(d, pkt)
    ELSE Done(d, <<>>, <<>>)

\* --------------------------------------------------------- receive path ----
\* result of a receive step: as process_packet, plus the packet handed to
\* process_packet in this step (<<>> when none was)
Quiet(d) == [d |-> d, written |-> <<>>, events |-> <<>>, raised |-> FALSE,
             pkt |-> <<>>]

baumprotocol_receive_statemachine(d, b) ==
    IF d.bp_sm_state = VPS_IDLE THEN
        Quiet([d EXCEPT !.vp_pkt = IF b = ESC THEN <<>> ELSE @,
                        !.bp_sm_state = VPS_W4_INFOTYPE])
    ELSE IF d.bp_sm_state = VPS_W4_INFOTYPE THEN
        Quiet([d EXCEPT !.vp_pkt = Append(@, b),
                        !.bp_sm_state =
                            IF b = 80 \/ b = 81 THEN VPS_W4_LENGTH
                                                ELSE VPS_IDLE])
    ELSE IF d.bp_sm_state = VPS_W4_LENGTH THEN
        Quiet([d EXCEPT !.vp_pkt = Append(@, b),
                        !.vp_payload_len = b,
                        !.bp_sm_state = VPS_GET_PAYLOAD])
    ELSE IF d.bp_sm_state = VPS_GET_PAYLOAD THEN
        LET d1 == [d EXCEPT !.vp_pkt = Append(@, b),
                            !.vp_payload_len = @ - 1]
        IN  IF d1.vp_payload_len = 0
            THEN Only({ [d       |-> IF r.raised THEN r.d
                                     ELSE [r.d EXCEPT
                                              !.bp_sm_state = VPS_IDLE],
                         written |-> r.written,
                         events  |-> r.events,
                         raised  |-> r.raised,
                         pkt     |-> d1.vp_pkt] :
                        r \in {process_packet(d1, d1.vp_pkt)} })
            ELSE Quiet(d1)
    ELSE Quiet(d)

\* an exception of the state machine skips the update of the previous byte
decode_escape_transport(d, b) ==
    IF b = ESC /\ d.bp_trans_prev_byte = ESC
    THEN Quiet([d EXCEPT !.bp_trans_prev_byte = 0])
    ELSE Only({ IF r.raised THEN r
                ELSE [r EXCEPT !.d.bp_trans_prev_byte = b] :
                r \in {baumprotocol_receive_statemachine(d, b)} })

\* _onReceive: whatever decode_escape_transport raises is logged here;
\* "raised" of the result says that this happened
onReceive(d, data) == decode_escape_transport(d, data)

\* ------------------------------------------------------------- inputs ----
\* module identities on the bus: type bytes and two address bytes
ID_MAIN_80 == VP_MAIN_80 \o <<0, 1>>
ID_MAIN_64 == VP_MAIN_64 \o <<0, 1>>
ID_STATUS  == STATUS \o <<0, 1>>
ID_UNKNOWN == <<160, 65, 0, 1>>

\* an inbound frame as the device sends it; the framing is the one of
\* send_packet, used in both directions
DeviceDetection(id, status) ==
    send_packet(BAUM_VP_DEVICE_DETECTION, id \o <<0, 0, 0, 0>> \o <<status>>)

DynamicDataBlock(id, data) ==
    send_packet(BAUM_VP_DYNAMIC_DATA_BLOCK, id \o data)

ZeroLengthFrame == send_packet(BAUM_VP_DEVICE_DETECTION, <<>>)

\* data of a main module packet: status byte, filler, then the fields at
\* the offsets process_main_data_packet reads for each layout
RoutingData80(mask) == <<8, 0, 0, 0, 0, 0, 0, 0>> \o mask
RoutingData64(mask) == <<8, 0, 0, 0, 0, 0, 0>> \o mask
DisplayKeysData80(d_keys) == <<4, 0, 0, 0, 0, 0, 0, d_keys>>
WheelButtonsData80(wp) == <<2, 0, 0, 0, 0, 0, wp>>
WheelRotationData80(wheels) == <<1, 0>> \o wheels

RoutingMasks80 == { <<0, 0, 0, 0, 0, 0, 0, 0, 0, 0>>,
                    <<1, 2, 0, 0, 0, 0, 0, 0, 0, 128>> }
RoutingMasks64 == { <<1, 2, 0, 0, 0, 0, 0, 128>> }
DisplayKeyMasks == {0, 1, 2}
WheelButtonMasks == {0, 5}
WheelDeltas == { <<0, 0, 0, 0>>, <<3, 0, 0, 0>>, <<0, 254, 0, 1>> }

\* what the device sends about its modules, and two reports of keys
ControlFrames ==
    { DeviceDetection(id, st) :
        id \in {ID_MAIN_80, ID_MAIN_64, ID_STATUS, ID_UNKNOWN}, st \in {1, 2} }
    \cup { DeviceDetection(ID_MAIN_80, 3), ZeroLengthFrame,
           DynamicDataBlock(ID_MAIN_80, DisplayKeysData80(1)),
           DynamicDataBlock(ID_UNKNOWN, DisplayKeysData80(1)) }

\* the reports of the main modules
DataFrames ==
    { DynamicDataBlock(ID_MAIN_80, RoutingData80(k)) : k \in RoutingMasks80 }
    \cup { DynamicDataBlock(ID_MAIN_64, RoutingData64(k)) : k \in RoutingMasks64 }
    \cup { DynamicDataBlock(ID_MAIN_80, DisplayKeysData80(k)) :
             k \in DisplayKeyMasks }
    \cup { DynamicDataBlock(ID_MAIN_80, WheelButtonsData80(k)) :
             k \in WheelButtonMasks }
    \cup { DynamicDataBlock(ID_MAIN_80, WheelRotationData80(k)) :
             k \in WheelDeltas }

\* line noise ahead of a frame: one byte or two bytes, never 0x1B
Noise == { <<0>>, <<7, 7>> }
NoisyFrames == { DeviceDetection(ID_MAIN_80, 1),
                 DynamicDataBlock(ID_MAIN_80, DisplayKeysData80(1)) }

\* what the channel is made to deliver in one go: a frame, or noise and a
\* frame
Injections ==
    { [noise |-> <<>>, frame |-> f] : f \in ControlFrames }
    \cup { [noise |-> n, frame |-> f] : n \in Noise, f \in NoisyFrames }

\* the cell buffers display() is called with: n cells, cell i holding i
Cells(n) == [i \in 1..n |-> i % 256]
CellCounts == {0, 64, 80, 96}

\* --------------------------------------------------------------- state ----
VARIABLES
    pc,                  \* "new" (__init__ at the head of its loop over
                         \* tryPorts), "waiting" (in the wait loop of a
                         \* port), "ready" (constructed), "failed" (__init__
                         \* raised), "terminated" (terminate has returned)
    ports,               \* ports of tryPorts not yet tried
    _dev,                \* self._dev: "None", or the hwIo.Serial object
                         \* that is "open" or "closed"
    tries,               \* rounds of the wait loop done
    numCells,
    bp_sm_state, vp_pkt, vp_payload_len, bp_trans_prev_byte,
    mainModule, statusModule, telephoneModule, connected_modules,
    wire,                \* bytes the channel has yet to deliver
    op,                  \* the operation that ran last
    written,             \* frames it handed to self._dev.write
    events,              \* gestures it sent
    raised,              \* whether it ended in an exception
    pkt_out,             \* the packet it handed to process_packet, or <<>>
    inj,                 \* what was last put on the wire, and whether the
                         \* assembler was idle then
    dispatched,          \* packets handed to process_packet since then
    dk_seen,             \* per module: nonzero display key masks decoded
                         \* since its last flush
    shown,               \* the cells of the display call in progress, or
                         \* of the one that ran last
    displayed,           \* the frames that call has written so far
    called,              \* the module references when it was called
    inside               \* receive: "write" while _onReceive is blocked in
                         \* _dev.write, else "out"; display: the statement
                         \* of display() that runs next, "out" outside

vars == <<pc, ports, _dev, tries, numCells, bp_sm_state, vp_pkt, vp_payload_len,
          bp_trans_prev_byte, mainModule, statusModule, telephoneModule,
          connected_modules, wire, op, written, events, raised, pkt_out,
          inj, dispatched, dk_seen, shown, displayed, called,
          inside>>

\* the driver object
Self ==
    [numCells           |-> numCells,
     bp_sm_state        |-> bp_sm_state,
     vp_pkt             |-> vp_pkt,
     vp_payload_len     |-> vp_payload_len,
     bp_trans_prev_byte |-> bp_trans_prev_byte,
     mainModule         |-> mainModule,
     statusModule       |-> statusModule,
     telephoneModule    |-> telephoneModule,
     connected_modules  |-> connected_modules]

Becomes(d) ==
    /\ numCells' = d.numCells
    /\ bp_sm_state' = d.bp_sm_state
    /\ vp_pkt' = d.vp_pkt
    /\ vp_payload_len' = d.vp_payload_len
    /\ bp_trans_prev_byte' = d.bp_trans_prev_byte
    /\ mainModule' = d.mainModule
    /\ statusModule' = d.statusModule
    /\ telephoneModule' = d.telephoneModule
    /\ connected_modules' = d.connected_modules

driverVars == <<numCells, bp_sm_state, vp_pkt, vp_payload_len,
                bp_trans_prev_byte, mainModule, statusModule,
                telephoneModule, connected_modules>>

NoInjection == [noise |-> <<>>, frame |-> <<>>, idle |-> FALSE]

\* display has not been called
NoCall == [main |-> None, status |-> None, telephone |-> None]

\* neither the I/O thread nor the host's thread is in a call
Outside == [receive |-> "out", display |-> "out"]

\* the attributes BrailleDisplayDriver.__init__ sets before its try block
NewDriver ==
    [numCells           |-> 0,
     bp_sm_state        |-> VPS_IDLE,
     vp_pkt             |-> <<>>,
     vp_payload_len     |-> 0,
     bp_trans_prev_byte |-> 0,
     mainModule         |-> None,
     statusModule       |-> None,
     telephoneModule    |-> None,
     connected_modules  |-> <<>>]

\* the driver after _onReceive has been called with each byte of data
RECURSIVE Fed(_, _)
Fed(d, data) ==
    IF data = <<>> THEN d
    ELSE Only({ Fed(r.d, Tail(data)) : r \in {onReceive(d, Head(data))} })

Blank ==
    /\ wire = <<>>
    /\ op = "none"
    /\ written = <<>>
    /\ events = <<>>
    /\ raised = FALSE
    /\ pkt_out = <<>>
    /\ inj = NoInjection
    /\ dispatched = <<>>
    /\ dk_seen = <<>>
    /\ shown = <<>>
    /\ displayed = <<>>
    /\ called = NoCall
    /\ inside = Outside

\* __init__ entered: the attributes are set, the port is not yet open
InitNew ==
    /\ pc = "new"
    /\ tries = 0
    /\ ports \in 0..MaxPorts
    /\ _dev = "None"
    /\ \E d \in {NewDriver} :
         /\ numCells = d.numCells
         /\ bp_sm_state = d.bp_sm_state
         /\ vp_pkt = d.vp_pkt
         /\ vp_payload_len = d.vp_payload_len
         /\ bp_trans_prev_byte = d.bp_trans_prev_byte
         /\ mainModule = d.mainModule
         /\ statusModule = d.statusModule
         /\ telephoneModule = d.telephoneModule
         /\ connected_modules = d.connected_modules
    /\ Blank

\* __init__ has returned: nothing arrived during the wait loop, or the
\* main module announced itself
Init ==
    /\ pc = "ready"
    /\ tries = 0
    /\ ports = 0
    /\ _dev = "open"
    /\ \E d \in { Fed(NewDriver, f) :
                    f \in {<<>>, DeviceDetection(ID_MAIN_80, 1)} } :
         /\ numCells = d.numCells
         /\ bp_sm_state = d.bp_sm_state
         /\ vp_pkt = d.vp_pkt
         /\ vp_payload_len = d.vp_payload_len
         /\ bp_trans_prev_byte = d.bp_trans_prev_byte
         /\ mainModule = d.mainModule
         /\ statusModule = d.statusModule
         /\ telephoneModule = d.telephoneModule
         /\ connected_modules = d.connected_modules
    /\ Blank

\* both main modules have announced themselves, in either order
InitDecode ==
    /\ pc = "ready"
    /\ tries = 0
    /\ ports = 0
    /\ _dev = "open"
    /\ \E d \in { Fed(NewDriver, DeviceDetection(o[1], 1)
                                 \o DeviceDetection(o[2], 1)) :
                    o \in { <<ID_MAIN_80, ID_MAIN_64>>,
                            <<ID_MAIN_64, ID_MAIN_80>> } } :
         /\ numCells = d.numCells
         /\ bp_sm_state = d.bp_sm_state
         /\ vp_pkt = d.vp_pkt
         /\ vp_payload_len = d.vp_payload_len
         /\ bp_trans_prev_byte = d.bp_trans_prev_byte
         /\ mainModule = d.mainModule
         /\ statusModule = d.statusModule
         /\ telephoneModule = d.telephoneModule
         /\ connected_modules = d.connected_modules
    /\ Blank

\* one turn of "for port, portType in tryPorts": with no port left
\* __init__ returns, and self._dev is still None when there was no port at
\* all; else the port of the turn before is closed, hwIo.Serial(...) opens
\* the next one and vp_query_modules is sent, or the open raises, self._dev
\* keeps the closed port and __init__ raises RuntimeError
Construct ==
    /\ pc = "new"
    /\ IF ports = 0
       THEN /\ pc' = "ready"
            /\ written' = <<>>
            /\ raised' = FALSE
            /\ UNCHANGED <<ports, _dev, wire>>
       ELSE /\ \E opened \in BOOLEAN :
                 /\ pc' = IF opened THEN "waiting" ELSE "failed"
                 /\ _dev' = IF opened THEN "open"
                            ELSE IF _dev = "open" THEN "closed" ELSE _dev
                 /\ written' = IF opened THEN <<vp_query_modules>> ELSE <<>>
                 /\ raised' = ~opened
            /\ ports' = ports - 1
            /\ wire' = <<>>
    /\ op' = "init"
    /\ events' = <<>>
    /\ pkt_out' = <<>>
    /\ UNCHANGED <<tries, driverVars, inj, dispatched, dk_seen, shown,
                   displayed, called, inside>>

\* one round of "for i in range(10)": waitForRead, then the numCells test;
\* after the break, and after the last round, the loop over tryPorts goes on
WaitForRead ==
    /\ pc = "waiting"
    /\ tries < ARRIVAL_WAITS
    /\ IF numCells # 0 \/ tries + 1 = ARRIVAL_WAITS
       THEN pc' = "new" /\ tries' = 0
       ELSE pc' = "waiting" /\ tries' = tries + 1
    /\ op' = "wait"
    /\ written' = <<>>
    /\ events' = <<>>
    /\ raised' = FALSE
    /\ pkt_out' = <<>>
    /\ UNCHANGED <<ports, _dev, driverVars, wire, inj, dispatched, dk_seen, shown,
                   displayed, called, inside>>

\* the device sends x.frame after the line noise x.noise, to the port
\* that self._dev has open
Send(x) ==
    /\ pc \in {"waiting", "ready"}
    /\ _dev = "open"
    /\ wire = <<>>
    /\ wire' = x.noise \o x.frame
    /\ inj' = [noise |-> x.noise, frame |-> x.frame,
               idle  |-> bp_sm_state = VPS_IDLE /\ bp_trans_prev_byte # ESC]
    /\ dispatched' = <<>>
    /\ op' = "send"
    /\ written' = <<>>
    /\ events' = <<>>
    /\ raised' = FALSE
    /\ pkt_out' = <<>>
    /\ shown' = IF inside.display = "out" THEN <<>> ELSE shown
    /\ displayed' = IF inside.display = "out" THEN <<>> ELSE displayed
    /\ called' = IF inside.display = "out" THEN NoCall ELSE called
    /\ UNCHANGED <<pc, ports, _dev, tries, driverVars, dk_seen, inside>>

Inject == \E x \in Injections : Send(x)

\* a main module reports keys, wheels or routing keys
InjectData ==
    \E f \in DataFrames : Send([noise |-> <<>>, frame |-> f])

\* while __init__ waits the modules answer the query
Announce ==
    \E id \in {ID_MAIN_80, ID_MAIN_64, ID_UNKNOWN} :
        Send([noise |-> <<>>, frame |-> DeviceDetection(id, 1)])

\* the display key mask of a packet that the 80 cell decoder reads as a
\* display key report, as a one element sequence; <<>> for other packets
DisplayKeysOf(pkt) ==
    IF /\ Len(pkt) >= 14
       /\ Idx(pkt, 0) = BAUM_VP_DYNAMIC_DATA_BLOCK
       /\ BitAnd(Idx(pkt, 6), 8) = 0
       /\ BitAnd(Idx(pkt, 6), 4) # 0
    THEN <<Idx(pkt, 13)>>
    ELSE <<>>

\* bookkeeping of dk_seen for a packet handed to process_packet while the
\* registry is cm: a module that is created anew has seen nothing, a
\* registered module whose decoder is process_main_data_packet sees the
\* display key mask
SeenAfter(seen, cm, pkt) ==
    LET id == PySlice(pkt, 2, 6)
        dk == DisplayKeysOf(pkt)
    IN  IF pkt = <<>> THEN seen
        ELSE IF Idx(pkt, 0) = BAUM_VP_DEVICE_DETECTION
        THEN IF Len(pkt) = 11 /\ Idx(pkt, 10) = 1 /\ id \in DOMAIN seen
             THEN Put(seen, id, {})
             ELSE seen
        ELSE IF /\ dk # <<>>
                /\ id \in DOMAIN cm
                /\ cm[id].input_handler = "process_main_data_packet"
        THEN Put(seen, id,
                 IF dk[1] = 0 THEN {}
                 ELSE (IF id \in DOMAIN seen THEN seen[id] ELSE {})
                      \cup {dk[1]})
        ELSE seen

\* the driver while _onReceive is blocked in the _dev.write of an
\* acknowledgment: process_packet has assigned the module reference, the
\* cell count and the registry entry; the assignments that follow the call
\* of process_packet (bp_sm_state, bp_trans_prev_byte) are yet to come
Blocked(d, r) ==
    [r.d EXCEPT !.bp_sm_state = d.bp_sm_state,
                !.bp_trans_prev_byte = d.bp_trans_prev_byte]

\* _onReceive(data) with the next byte of the channel, up to its return
\* or up to the _dev.write in which it blocks, as long as the packet buffer
\* stays within maxPkt bytes
ReceiveUpTo(maxPkt) ==
    /\ pc \in {"new", "waiting", "ready"}
    /\ _dev = "open"
    /\ inside.receive = "out"
    /\ wire # <<>>
    /\ \E r \in {onReceive(Self, Head(wire))} :
           /\ Len(r.d.vp_pkt) <= maxPkt
           /\ r.d.vp_payload_len >= 0 - MaxUnderrun
           /\ IF r.written # <<>>
              THEN /\ Becomes(Blocked(Self, r))
                   /\ inside' = [inside EXCEPT !.receive = "write"]
              ELSE /\ Becomes(r.d)
                   /\ inside' = inside
           /\ written' = r.written
           /\ events' = r.events
           /\ raised' = r.raised
           /\ pkt_out' = r.pkt
           /\ dispatched' = IF r.pkt = <<>> THEN dispatched
                            ELSE Append(dispatched, r.pkt)
           /\ dk_seen' = SeenAfter(dk_seen, connected_modules, r.pkt)
    /\ wire' = Tail(wire)
    /\ op' = "receive"
    /\ shown' = IF inside.display = "out" THEN <<>> ELSE shown
    /\ displayed' = IF inside.display = "out" THEN <<>> ELSE displayed
    /\ called' = IF inside.display = "out" THEN NoCall ELSE called
    /\ UNCHANGED <<pc, ports, _dev, tries, inj>>

\* the channel delivers one byte to _onReceive
Receive == ReceiveUpTo(MaxPkt)

\* the _dev.write of the acknowledgment returns: process_packet returns,
\* the assembler goes to Idle, the transport notes the byte, _onReceive
\* returns
WriteReturns ==
    /\ inside.receive = "write"
    /\ bp_sm_state' = VPS_IDLE
    /\ bp_trans_prev_byte' = vp_pkt[Len(vp_pkt)]
    /\ inside' = [inside EXCEPT !.receive = "out"]
    /\ pkt_out' = <<>>
    /\ UNCHANGED <<pc, ports, _dev, tries, numCells, vp_pkt, vp_payload_len,
                   mainModule, statusModule, telephoneModule,
                   connected_modules, wire, op, written, events, raised,
                   inj, dispatched, dk_seen, shown, displayed, called>>

\* a statement of display() has run with result r
DisplayStep(r) ==
    /\ displayed' = (IF inside.display = "out" THEN <<>> ELSE displayed)
                    \o r.written
    /\ written' = displayed'
    /\ raised' = r.raised
    /\ inside' = [inside EXCEPT !.display = r.next]
    /\ op' = "display"
    /\ events' = <<>>
    /\ pkt_out' = <<>>
    /\ UNCHANGED <<pc, ports, _dev, tries, driverVars, wire, inj, dispatched,
                   dk_seen>>

\* the host calls display(cells): the main display's statement
DisplayMain ==
    /\ pc = "ready"
    /\ inside.display = "out"
    /\ \E n \in CellCounts :
           /\ shown' = Cells(n)
           /\ called' = [main      |-> mainModule,
                         status    |-> statusModule,
                         telephone |-> telephoneModule]
           /\ \E r \in {display_main(Self, Cells(n))} : DisplayStep(r)

\* the length test after the main display's write has returned
DisplayCheck ==
    /\ inside.display = "check"
    /\ UNCHANGED <<shown, called>>
    /\ \E r \in {display_check(Self, shown)} : DisplayStep(r)

DisplayStatus ==
    /\ inside.display = "status"
    /\ UNCHANGED <<shown, called>>
    /\ \E r \in {display_status(Self, shown)} : DisplayStep(r)

DisplayTelephone ==
    /\ inside.display = "telephone"
    /\ UNCHANGED <<shown, called>>
    /\ \E r \in {display_telephone(Self, shown)} : DisplayStep(r)

\* the constructed driver: modules come and go
Next == Inject \/ Receive \/ WriteReturns

Spec == Init /\ [][Next]_vars

\* the constructor
NextInit == Construct \/ WaitForRead \/ Announce \/ Receive \/ WriteReturns

SpecInit == InitNew /\ [][NextInit]_vars

\* the decoders of the main modules
NextDecode == InjectData \/ Receive

SpecDecode == InitDecode /\ [][NextDecode]_vars

\* ---- the auxiliary (TASO) unit ----
ID_TASO == TASO \o <<0, 1>>

\* data of a TASO packet: status byte, filler, then the position at the
\* offset process_taso_data_packet reads for the axis
HorizontalSliderData(pos) == <<4, 0, 0, 0, pos>>
VerticalSliderData(pos) == <<2, 0, 0, pos>>

SliderPositions == {0, 10, 13}

\* data of a TASO key packet: status byte, filler, then the key field at
\* the offset process_taso_data_packet reads
TasoKeysData(tk) == <<8, 0, 0, 0, 0>> \o tk

\* key fields: nothing, a keypad key, a keypad key and a push button, and
\* the top bit of the second byte
TasoKeyFields == { <<0, 0, 0>>, <<1, 0, 0>>, <<1, 0, 32>>, <<0, 128, 0>> }

TasoFrames ==
    { DynamicDataBlock(ID_TASO, HorizontalSliderData(p)) : p \in SliderPositions }
    \cup { DynamicDataBlock(ID_TASO, VerticalSliderData(p)) :
             p \in SliderPositions }
    \cup { DynamicDataBlock(ID_TASO, TasoKeysData(tk)) : tk \in TasoKeyFields }

\* the TASO unit has announced itself
InitTaso ==
    /\ pc = "ready"
    /\ tries = 0
    /\ ports = 0
    /\ _dev = "open"
    /\ \E d \in { Fed(NewDriver, DeviceDetection(ID_TASO, 1)) } :
         /\ numCells = d.numCells
         /\ bp_sm_state = d.bp_sm_state
         /\ vp_pkt = d.vp_pkt
         /\ vp_payload_len = d.vp_payload_len
         /\ bp_trans_prev_byte = d.bp_trans_prev_byte
         /\ mainModule = d.mainModule
         /\ statusModule = d.statusModule
         /\ telephoneModule = d.telephoneModule
         /\ connected_modules = d.connected_modules
    /\ Blank

\* the TASO unit reports a slider position
InjectTaso ==
    \E f \in TasoFrames : Send([noise |-> <<>>, frame |-> f])

\* the decoders of the auxiliary unit
NextTaso == InjectTaso \/ Receive

SpecTaso == InitTaso /\ [][NextTaso]_vars

\* ---- framing ----
\* the info types the assembler accepts
InfoTypes == {BAUM_VP_DEVICE_DETECTION, BAUM_VP_DYNAMIC_DATA_BLOCK}

\* a payload of 0x1B bytes, its last byte 0x1B
LongPayload == [i \in 1..ESC |-> i]

\* payloads with 0x1B bytes in several positions
EscapedPayloads ==
    { <<5>>, <<ESC>>, <<1, ESC>>, <<ESC, ESC>>, <<ESC, 2, ESC>>,
      <<1, 80, 1, 9>>, LongPayload }

\* handshake payloads: the identity and a status byte, and the identity,
\* four more bytes and a status byte
HandshakePayloads ==
    { ID_MAIN_80 \o <<st>> : st \in {1, 2} }
    \cup { ID_MAIN_80 \o <<0, 0, 0, 0>> \o <<st>> : st \in {1, 2, 3, 4} }

FramePayloads == EscapedPayloads \cup HandshakePayloads

\* the frames of these payloads, and one frame after a byte of line noise
FrameInjections ==
    { [noise |-> <<>>, frame |-> send_packet(cmd, p)] :
        cmd \in InfoTypes, p \in FramePayloads }
    \cup { [noise |-> <<7>>,
            frame |-> send_packet(BAUM_VP_DEVICE_DETECTION, <<1, 80, 1, 9>>)] }

\* the device sends a frame
InjectFrame == \E x \in FrameInjections : Send(x)

\* the channel delivers one byte of a frame that may be long
ReceiveLong == ReceiveUpTo(MaxLongPkt)

\* the transport and the assembler
NextFrame == InjectFrame \/ ReceiveLong \/ WriteReturns

SpecFrame == Init /\ [][NextFrame]_vars

\* ---- the host's thread and the I/O thread ----
\* the main module and the status module come and go
HostFrames ==
    { DeviceDetection(id, st) : id \in {ID_MAIN_80, ID_STATUS}, st \in {1, 2} }

InjectHost == \E f \in HostFrames : Send([noise |-> <<>>, frame |-> f])

\* terminate(): the port is closed, when there is one; no other attribute
\* of the driver is assigned
Terminate ==
    /\ pc = "ready"
    /\ inside = Outside
    /\ pc' = "terminated"
    /\ _dev' = IF _dev = "open" THEN "closed" ELSE _dev
    /\ op' = "terminate"
    /\ written' = <<>>
    /\ events' = <<>>
    /\ raised' = FALSE
    /\ pkt_out' = <<>>
    /\ UNCHANGED <<ports, tries, driverVars, wire, inj, dispatched, dk_seen,
                   shown, displayed, called, inside>>

\* the driver in use: the I/O thread receives, the host displays and, in
\* the end, terminates
NextHost ==
    \/ InjectHost
    \/ Receive
    \/ WriteReturns
    \/ DisplayMain
    \/ DisplayCheck
    \/ DisplayStatus
    \/ DisplayTelephone
    \/ Terminate

SpecHost == Init /\ [][NextHost]_vars

\* ---- all modules ----
ID_TELEPHONE == TELEPHONE \o <<0, 1>>

\* data of a main module packet (80 cells) with every field: status byte,
\* filler, four wheels, wheel buttons, display keys, routing key mask
MainData80(stat, wheels, wp, d_keys, mask) ==
    <<stat, 0>> \o wheels \o <<wp, d_keys>> \o mask

\* data of a TASO packet with every field: status byte, filler, wheel,
\* vertical slider, horizontal slider, key field
TasoData(stat, wd, tvs, ths, tk) == <<stat, 0, wd, tvs, ths>> \o tk

\* reports with one and with several bits in the status byte
FullFrames ==
    { DynamicDataBlock(ID_MAIN_80,
          MainData80(12, <<0, 0, 0, 0>>, 0, 1,
                     <<1, 0, 0, 0, 0, 0, 0, 0, 0, 0>>)),
      DynamicDataBlock(ID_MAIN_80,
          MainData80(6, <<0, 0, 0, 0>>, 5, 2,
                     <<0, 0, 0, 0, 0, 0, 0, 0, 0, 0>>)),
      DynamicDataBlock(ID_MAIN_80,
          MainData80(3, <<3, 0, 0, 0>>, 5, 0,
                     <<0, 0, 0, 0, 0, 0, 0, 0, 0, 0>>)),
      DynamicDataBlock(ID_MAIN_80, DisplayKeysData80(0)),
      DynamicDataBlock(ID_TASO, TasoData(15, 1, 13, 10, <<1, 0, 32>>)),
      DynamicDataBlock(ID_TASO, TasoData(6, 0, 13, 10, <<0, 0, 0>>)),
      DynamicDataBlock(ID_TASO, TasoData(3, 2, 13, 0, <<0, 0, 0>>)),
      DynamicDataBlock(ID_STATUS, <<2, 0, 1>>),
      DynamicDataBlock(ID_TELEPHONE, <<2, 0, 0, 0, 1, 0>>) }

\* reports that end before the field their status byte selects
ShortFrames ==
    { DynamicDataBlock(ID_MAIN_80, <<4>>),
      DynamicDataBlock(ID_MAIN_80, <<8, 0, 0, 0, 0, 0, 0, 0, 1, 0>>),
      DynamicDataBlock(ID_TASO, <<8, 0, 0, 0, 0, 1>>),
      DynamicDataBlock(ID_STATUS, <<>>),
      DynamicDataBlock(ID_TELEPHONE, <<2, 0, 0>>) }

\* the main module, the TASO unit, the status unit and the telephone unit
\* have announced themselves
InitModules ==
    /\ pc = "ready"
    /\ tries = 0
    /\ ports = 0
    /\ _dev = "open"
    /\ \E d \in { Fed(NewDriver, DeviceDetection(ID_MAIN_80, 1)
                                 \o DeviceDetection(ID_TASO, 1)
                                 \o DeviceDetection(ID_STATUS, 1)
                                 \o DeviceDetection(ID_TELEPHONE, 1)) } :
         /\ numCells = d.numCells
         /\ bp_sm_state = d.bp_sm_state
         /\ vp_pkt = d.vp_pkt
         /\ vp_payload_len = d.vp_payload_len
         /\ bp_trans_prev_byte = d.bp_trans_prev_byte
         /\ mainModule = d.mainModule
         /\ statusModule = d.statusModule
         /\ telephoneModule = d.telephoneModule
         /\ connected_modules = d.connected_modules
    /\ Blank

\* a module reports
InjectModules ==
    \E f \in FullFrames \cup ShortFrames : Send([noise |-> <<>>, frame |-> f])

\* the driver with every kind of module: reports come in
NextModules == InjectModules \/ Receive

SpecModules == InitModules /\ [][NextModules]_vars

\* ---- a main display arrives while the host displays ----
\* the 80 cell main display, the status unit and the telephone unit have
\* announced themselves
InitSwap ==
    /\ pc = "ready"
    /\ tries = 0
    /\ ports = 0
    /\ _dev = "open"
    /\ \E d \in { Fed(NewDriver, DeviceDetection(ID_MAIN_80, 1)
                                 \o DeviceDetection(ID_STATUS, 1)
                                 \o DeviceDetection(ID_TELEPHONE, 1)) } :
         /\ numCells = d.numCells
         /\ bp_sm_state = d.bp_sm_state
         /\ vp_pkt = d.vp_pkt
         /\ vp_payload_len = d.vp_payload_len
         /\ bp_trans_prev_byte = d.bp_trans_prev_byte
         /\ mainModule = d.mainModule
         /\ statusModule = d.statusModule
         /\ telephoneModule = d.telephoneModule
         /\ connected_modules = d.connected_modules
    /\ Blank

\* a main display of either size announces itself
InjectSwap ==
    \E id \in {ID_MAIN_80, ID_MAIN_64} :
        Send([noise |-> <<>>, frame |-> DeviceDetection(id, 1)])

\* the I/O thread receives, the host's thread displays; the code takes no
\* lock
NextSwap ==
    \/ InjectSwap
    \/ Receive
    \/ WriteReturns
    \/ DisplayMain
    \/ DisplayCheck
    \/ DisplayStatus
    \/ DisplayTelephone

SpecSwap == InitSwap /\ [][NextSwap]_vars

\* -------------------------------------------------------------- claims ----
\* the last byte of a frame that was sent, without noise, to an idle
\* assembler has just been processed
FrameDelivered ==
    /\ op = "receive"
    /\ inside.receive = "out"
    /\ wire = <<>>
    /\ inj.idle
    /\ inj.noise = <<>>

\* fields of a frame on the wire that needed no byte stuffing
FrameType(f) == f[2]
FrameIdentity(f) == SubSeq(f, 4, 7)

\* the packets process_packet is handed while data is fed to driver d
RECURSIVE Dispatches(_, _)
Dispatches(d, data) ==
    IF data = <<>> THEN <<>>
    ELSE Only({ (IF r.pkt = <<>> THEN <<>> ELSE <<r.pkt>>)
                \o Dispatches(r.d, Tail(data)) :
                r \in {onReceive(d, Head(data))} })

\* C1: a DynamicDataBlock frame for an identity that is not in the registry
\* is dropped and leaves the assembler in Idle, without an error
C1_UnknownIdentityDropped ==
    ( /\ FrameDelivered
      /\ Len(inj.frame) > 7
      /\ FrameType(inj.frame) = BAUM_VP_DYNAMIC_DATA_BLOCK
      /\ FrameIdentity(inj.frame) \notin DOMAIN connected_modules )
    => ( bp_sm_state = VPS_IDLE /\ ~raised )

\* C2: a frame whose length byte is 0 is dispatched with an empty payload
\* and the assembler is back in Idle
C2_ZeroLengthFrameDispatched ==
    ( FrameDelivered /\ Len(inj.frame) = 3 /\ inj.frame[3] = 0 )
    => ( /\ bp_sm_state = VPS_IDLE
         /\ dispatched = << <<FrameType(inj.frame), 0>> >> )

\* C3: bytes other than 0x1B received in Idle ahead of a well-formed frame
\* do not change the packet that is dispatched for the frame
C3_NoiseBeforeFrameIgnored ==
    ( /\ op = "receive"
      /\ wire = <<>>
      /\ inj.idle
      /\ inj.noise # <<>> )
    => dispatched = Dispatches(NewDriver, inj.frame)

\* C4: an Arrived packet of an unknown module kind is stored in the
\* registry, and a DynamicDataBlock for that identity then sends no gesture
\* and raises no error
C4_UnknownKindStored ==
    /\ ( /\ FrameDelivered
         /\ Len(inj.frame) = 12
         /\ FrameType(inj.frame) = BAUM_VP_DEVICE_DETECTION
         /\ inj.frame[12] = 1
         /\ SubSeq(inj.frame, 4, 5) \notin KnownTypes )
       => FrameIdentity(inj.frame) \in DOMAIN connected_modules
    /\ ( /\ FrameDelivered
         /\ Len(inj.frame) > 7
         /\ FrameType(inj.frame) = BAUM_VP_DYNAMIC_DATA_BLOCK
         /\ SubSeq(inj.frame, 4, 5) \notin KnownTypes )
       => ( events = <<>> /\ ~raised )

\* a Removed packet of the device detection handshake
IsRemoved(pkt) ==
    /\ Len(pkt) = 11
    /\ Idx(pkt, 0) = BAUM_VP_DEVICE_DETECTION
    /\ Idx(pkt, 10) = 2

\* C5: processing a Removed packet for a known-kind identity X leaves the
\* registry without X and every other entry as it was; when X was not
\* registered the driver's registry and module references do not change;
\* no error is raised and the assembler is in Idle afterwards
C5_RemovalStep ==
    ( IsRemoved(pkt_out') /\ PySlice(pkt_out', 2, 4) \in KnownTypes )
    => LET X == PySlice(pkt_out', 2, 6)
       IN  /\ X \notin DOMAIN connected_modules'
           /\ DOMAIN connected_modules' = (DOMAIN connected_modules) \ {X}
           /\ \A y \in DOMAIN connected_modules' :
                  connected_modules'[y] = connected_modules[y]
           /\ X \notin DOMAIN connected_modules =>
                  /\ connected_modules' = connected_modules
                  /\ mainModule' = mainModule
                  /\ statusModule' = statusModule
                  /\ telephoneModule' = telephoneModule
                  /\ numCells' = numCells
           /\ ~raised'
           /\ written' = <<>>
           /\ events' = <<>>
           /\ bp_sm_state' = VPS_IDLE

C5_RegistryLifecycle == [][C5_RemovalStep]_vars

\* C5 witness: the main module had arrived (the driver still refers to it)
\* and its Removed packet has just been processed
C5_Witness ==
    /\ op = "receive"
    /\ IsRemoved(pkt_out)
    /\ PySlice(pkt_out, 2, 6) = ID_MAIN_80
    /\ mainModule.module_id = ID_MAIN_80
    /\ ID_MAIN_80 \notin DOMAIN connected_modules

\* the identity an outbound DynamicDataBlock frame is addressed to
AddressOf(frame) == SubSeq(frame, 4, 7)

\* C6: display() writes packets only to modules that are in the registry
C6_DisplayAddressesRegisteredOnly ==
    ( op = "display" /\ inside.display = "out" ) =>
        \A i \in 1..Len(written) :
            AddressOf(written[i]) \in DOMAIN connected_modules

\* C7: the constructor does not return with a cell count of 0
C7_NoConstructionWithoutDisplay ==
    pc = "ready" => numCells # 0

\* the gestures of a rotation: |delta| per wheel, wheel after wheel
RECURSIVE Detents(_, _)
Detents(wheels, wi) ==
    IF wi >= Len(wheels) THEN <<>>
    ELSE LET delta == Signed8(Idx(wheels, wi))
         IN  Repeat([group |-> IF delta > 0 THEN BAUM_WHEELS_UP
                                            ELSE BAUM_WHEELS_DOWN,
                     keys  |-> {wi}],
                    Abs(delta))
             \o Detents(wheels, wi + 1)

\* a DynamicDataBlock packet for a registered 80 cell main module
ForMain80(pkt) ==
    /\ Len(pkt) > 6
    /\ Idx(pkt, 0) = BAUM_VP_DYNAMIC_DATA_BLOCK
    /\ PySlice(pkt, 2, 4) = VP_MAIN_80
    /\ PySlice(pkt, 2, 6) \in DOMAIN connected_modules

\* C8: a wheel rotation packet for a registered 80 cell main module sends
\* |d| single detent gestures for each wheel, Up for d > 0, Down for d < 0
C8_WheelDetents ==
    ( /\ op = "receive"
      /\ ForMain80(pkt_out)
      /\ Idx(pkt_out, 6) = 1
      /\ Len(pkt_out) = 12 )
    => events = Detents(PySlice(pkt_out, 8, 12), 0)

\* the union of the bits of a set of masks
BitsOfAll(masks) == UNION { Bits(k) : k \in masks }

SeenBy(id) == IF id \in DOMAIN dk_seen THEN dk_seen[id] ELSE {}

\* C9: a display key packet for a registered 80 cell main module sends no
\* gesture when its mask is nonzero; when its mask is 0 it sends exactly
\* one DisplayKeys gesture holding the OR of the nonzero masks seen since
\* the last flush and leaves the accumulator at 0
C9_DisplayKeysStep ==
    ( /\ DisplayKeysOf(pkt_out') # <<>>
      /\ PySlice(pkt_out', 2, 4) = VP_MAIN_80
      /\ PySlice(pkt_out', 2, 6) \in DOMAIN connected_modules )
    => LET X == PySlice(pkt_out', 2, 6)
           k == DisplayKeysOf(pkt_out')[1]
       IN  /\ ~raised'
           /\ k # 0 => events' = <<>>
           /\ k = 0 =>
                /\ events' = << [group |-> BAUM_DISPLAY_KEYS,
                                 keys  |-> BitsOfAll(SeenBy(X))] >>
                /\ connected_modules'[X].cumul_d_keys = 0

C9_DisplayKeyAccumulation == [][C9_DisplayKeysStep]_vars

\* C9 witness: the masks 1 and 2 were accumulated and have been flushed as
\* one gesture with both keys
C9_Witness ==
    /\ op = "receive"
    /\ DisplayKeysOf(pkt_out) = <<0>>
    /\ events = << [group |-> BAUM_DISPLAY_KEYS, keys |-> {0, 1}] >>
    /\ connected_modules[ID_MAIN_80].cumul_d_keys = 0

\* the bits of a little-endian sequence of mask bytes
LittleEndianBits(bytes) ==
    { 8 * (i - 1) + j : i \in 1..Len(bytes), j \in 0..7 } \cap
    UNION { { 8 * (i - 1) + j : j \in Bits(bytes[i]) } : i \in 1..Len(bytes) }

\* C10: a routing key packet for a registered main module of either layout
\* sends one RoutingKeys gesture with the little-endian mask of the N/8
\* mask bytes at data offset 8 (80 cells) or 7 (64 cells), none for mask 0
C10_RoutingMask ==
    ( /\ op = "receive"
      /\ Len(pkt_out) > 6
      /\ Idx(pkt_out, 0) = BAUM_VP_DYNAMIC_DATA_BLOCK
      /\ PySlice(pkt_out, 2, 4) \in {VP_MAIN_80, VP_MAIN_64}
      /\ PySlice(pkt_out, 2, 6) \in DOMAIN connected_modules
      /\ BitAnd(Idx(pkt_out, 6), 8) # 0
      /\ Len(pkt_out) = IF PySlice(pkt_out, 2, 4) = VP_MAIN_80
                        THEN 6 + 8 + 10 ELSE 6 + 7 + 8 )
    => LET data == PyTail(pkt_out, 6)
           mask == IF PySlice(pkt_out, 2, 4) = VP_MAIN_80
                   THEN LittleEndianBits(PySlice(data, 8, 18))
                   ELSE LittleEndianBits(PySlice(data, 7, 15))
       IN  events = IF mask = {} THEN <<>>
                    ELSE << [group |-> BAUM_ROUTING_KEYS, keys |-> mask] >>

\* the position a packet reports for a slider axis of a TASO unit, as a one
\* element sequence; <<>> when the TASO decoder does not read the packet as
\* a report of that axis
SliderReport(pkt, axis) ==
    IF /\ Len(pkt) > 6
       /\ Idx(pkt, 0) = BAUM_VP_DYNAMIC_DATA_BLOCK
       /\ PySlice(pkt, 2, 4) = TASO
       /\ BitAnd(Idx(pkt, 6), 8) = 0
    THEN IF axis = "horizontal" /\ BitAnd(Idx(pkt, 6), 4) # 0 /\ Len(pkt) = 11
         THEN <<Idx(pkt, 10)>>
         ELSE IF /\ axis = "vertical"
                 /\ BitAnd(Idx(pkt, 6), 4) = 0
                 /\ BitAnd(Idx(pkt, 6), 2) # 0
                 /\ Len(pkt) = 10
         THEN <<Idx(pkt, 9)>>
         ELSE <<>>
    ELSE <<>>

SliderTag(axis) == IF axis = "horizontal" THEN BAUM_TASO_HORIZONTAL_SLIDER
                                          ELSE BAUM_TASO_VERTICAL_SLIDER

\* the position stored for the axis in module m
StoredPosition(m, axis) == IF axis = "horizontal" THEN m.prev_ths ELSE m.prev_tvs

\* the key of the single step events of an axis for a move from q to p
StepKey(axis, p, q) ==
    IF axis = "horizontal" THEN (IF p > q THEN {1} ELSE {0})
                           ELSE (IF p > q THEN {0} ELSE {1})

\* C11: a position report p for a slider axis of a registered TASO unit
\* whose stored position is q sends exactly |p - q| single step gestures of
\* that axis, all with the key that the sign of p - q selects, none when
\* p = q, and leaves p as the stored position
C11_SliderStep ==
    \A axis \in {"horizontal", "vertical"} :
        ( /\ SliderReport(pkt_out', axis) # <<>>
          /\ PySlice(pkt_out', 2, 6) \in DOMAIN connected_modules )
        => LET X == PySlice(pkt_out', 2, 6)
               p == SliderReport(pkt_out', axis)[1]
               q == StoredPosition(connected_modules[X], axis)
           IN  /\ ~raised'
               /\ Len(events') = Abs(p - q)
               /\ \A i \in 1..Len(events') :
                      events'[i] = [group |-> SliderTag(axis),
                                    keys  |-> StepKey(axis, p, q)]
               /\ StoredPosition(connected_modules'[X], axis) = p

C11_SliderDifferential == [][C11_SliderStep]_vars

\* C11 witness: the vertical slider went from 10 to 13 and three gestures
\* were sent; the position 13 is stored
C11_Witness ==
    /\ op = "receive"
    /\ SliderReport(pkt_out, "vertical") = <<13>>
    /\ Len(events) = 3
    /\ connected_modules[ID_TASO].prev_tvs = 13
    /\ connected_modules[ID_TASO].prev_ths = 10

\* C12: the frame send_packet builds for an info type and a non-empty
\* payload, received byte by byte by an idle assembler, is dispatched as
\* exactly one packet: the info type, the length and the payload
C12_EscapingRoundTrip ==
    \A cmd \in InfoTypes, p \in FramePayloads :
        ( FrameDelivered /\ inj.frame = send_packet(cmd, p) )
        => dispatched = << <<cmd, Len(p)>> \o p >>

\* C12 witness: the payload of 0x1B bytes that ends in 0x1B has made the
\* round trip
C12_Witness ==
    /\ FrameDelivered
    /\ inj.frame = send_packet(BAUM_VP_DEVICE_DETECTION, LongPayload)
    /\ dispatched = << <<BAUM_VP_DEVICE_DETECTION, ESC>> \o LongPayload >>
    /\ bp_sm_state = VPS_IDLE

\* a packet of the device detection handshake
IsHandshake(pkt) ==
    /\ pkt # <<>>
    /\ Idx(pkt, 0) = BAUM_VP_DEVICE_DETECTION

\* an Arrived packet as process_packet reads it
IsArrived(pkt) ==
    /\ IsHandshake(pkt)
    /\ Len(pkt) = 11
    /\ Idx(pkt, 10) = 1

\* C13: processing an Arrived packet of a known module kind writes exactly
\* one DeviceDetection frame, its payload the four identity bytes and 0x01,
\* and the module is in the registry by then; a handshake packet that is
\* Removed, Rejected, of another status or of another length writes nothing
C13_AckStep ==
    IsHandshake(pkt_out')
    => LET X == PySlice(pkt_out', 2, 6)
       IN  /\ ( IsArrived(pkt_out') /\ PySlice(pkt_out', 2, 4) \in KnownTypes )
               => /\ written' = << <<ESC, BAUM_VP_DEVICE_DETECTION, 5>>
                                   \o X \o <<1>> >>
                  /\ X \in DOMAIN connected_modules'
           /\ ~IsArrived(pkt_out') => written' = <<>>

C13_ArrivalAcknowledged == [][C13_AckStep]_vars

\* C13 witness: the Arrived packet of the 80 cell main module has been
\* processed, the module is registered and its acknowledgment written
C13_Witness ==
    /\ op = "receive"
    /\ IsArrived(pkt_out)
    /\ PySlice(pkt_out, 2, 6) = ID_MAIN_80
    /\ written = << <<ESC, 80, 5, 128, 65, 0, 1, 1>> >>
    /\ ID_MAIN_80 \in DOMAIN connected_modules

\* a byte sequence of the wire with every doubled 0x1B made one
RECURSIVE Unstuffed(_)
Unstuffed(bytes) ==
    IF Len(bytes) < 2 THEN bytes
    ELSE IF bytes[1] = ESC /\ bytes[2] = ESC
         THEN <<ESC>> \o Unstuffed(SubSeq(bytes, 3, Len(bytes)))
         ELSE <<bytes[1]>> \o Unstuffed(Tail(bytes))

\* the bytes of the last injection that have been received
Consumed ==
    SubSeq(inj.noise \o inj.frame, 1,
           Len(inj.noise) + Len(inj.frame) - Len(wire))

\* C14: a packet handed to process_packet is a recognized info type, the
\* length byte L and exactly L payload bytes, and these are the bytes
\* received after a frame marker (here: of the injection that found the
\* assembler idle), with nothing from before the marker
C14_PacketComposition ==
    ( op = "receive" /\ pkt_out # <<>> )
    => /\ Len(pkt_out) >= 2
       /\ pkt_out[1] \in InfoTypes
       /\ Len(pkt_out) = 2 + pkt_out[2]
       /\ inj.idle =>
            \E i \in 1..Len(Consumed) :
                /\ Consumed[i] = ESC
                /\ Unstuffed(SubSeq(Consumed, i + 1, Len(Consumed))) = pkt_out

\* C15: a DeviceDetection frame whose payload is the four identity bytes
\* of a known module kind and the status byte registers the module for
\* status 0x01 and removes it for status 0x02
C15_HandshakeShape ==
    \A st \in {1, 2} :
        ( /\ FrameDelivered
          /\ inj.frame = <<ESC, BAUM_VP_DEVICE_DETECTION, 5>>
                         \o ID_MAIN_80 \o <<st>> )
        => ( ID_MAIN_80 \in DOMAIN connected_modules <=> st = 1 )

\* C15 as amended: a DeviceDetection frame whose payload is the four
\* identity bytes of a known module kind, four more bytes and the status
\* byte registers the module for status 0x01 and removes it for status
\* 0x02; the frame with identity and status alone is dispatched and leaves
\* the registry as it was
C15_HandshakeStep ==
    /\ \A st \in {1, 2} :
         ( /\ IsHandshake(pkt_out')
           /\ Len(pkt_out') = 11
           /\ PySlice(pkt_out', 2, 4) \in KnownTypes
           /\ Idx(pkt_out', 10) = st )
         => LET X == PySlice(pkt_out', 2, 6)
            IN  /\ X \in DOMAIN connected_modules' <=> st = 1
                /\ st = 1 => connected_modules'[X].module_id = X
                /\ ~raised'
    /\ ( IsHandshake(pkt_out') /\ Len(pkt_out') = 7 )
         => connected_modules' = connected_modules

C15_HandshakeShapeAmended == [][C15_HandshakeStep]_vars

\* C15 witness: the nine byte Arrived payload of the 80 cell main module
\* has registered it, on a driver that had no module
C15_Witness ==
    /\ FrameDelivered
    /\ inj.frame = DeviceDetection(ID_MAIN_80, 1)
    /\ DOMAIN connected_modules = {ID_MAIN_80}
    /\ connected_modules[ID_MAIN_80].number_cells = 80
    /\ numCells = 80

\* C16: the host's thread is not inside display() while the I/O thread is
\* inside process_packet, at the write of its acknowledgment
C16_MutualExclusion ==
    ~( inside.display # "out" /\ inside.receive = "write" )

\* C17: after terminate() the registry is empty and the assembler is Idle
C17_TeardownReleases ==
    pc = "terminated"
    => ( connected_modules = <<>> /\ bp_sm_state = VPS_IDLE )

\* C18: no gesture is sent whose key mask is 0
C18_NoZeroMaskGesture ==
    \A i \in 1..Len(events) : events[i].keys # {}

\* a DynamicDataBlock packet for a registered 64 cell main module
ForMain64(pkt) ==
    /\ Len(pkt) > 6
    /\ Idx(pkt, 0) = BAUM_VP_DYNAMIC_DATA_BLOCK
    /\ PySlice(pkt, 2, 4) = VP_MAIN_64
    /\ PySlice(pkt, 2, 6) \in DOMAIN connected_modules

\* C19: the module a DynamicDataBlock for a registered 64 cell main module
\* is handed to has a decoder, as every module of a known kind has, and the
\* packet is decoded, not dropped as not supported
C19_DecoderAttached ==
    ( op = "receive" /\ ForMain64(pkt_out) )
    => LET data == PyTail(pkt_out, 6)
       IN  /\ connected_modules[PySlice(pkt_out, 2, 6)].input_handler # "None"
           /\ ~raised
           /\ ( /\ Len(data) = 15
                /\ BitAnd(data[1], 8) # 0
                /\ \E i \in 8..15 : data[i] # 0 )
              => ( Len(events) = 1 /\ events[1].group = BAUM_ROUTING_KEYS )

\* C20: a horizontal increase sends the key (bit 1) that a vertical
\* decrease sends, a horizontal decrease the key (bit 0) of a vertical
\* increase
C20_PolarityStep ==
    \A axis \in {"horizontal", "vertical"} :
        ( /\ SliderReport(pkt_out', axis) # <<>>
          /\ PySlice(pkt_out', 2, 6) \in DOMAIN connected_modules )
        => LET p == SliderReport(pkt_out', axis)[1]
               q == StoredPosition(
                        connected_modules[PySlice(pkt_out', 2, 6)], axis)
               increase == p > q
               decrease == p < q
           IN  /\ ( (axis = "horizontal" /\ increase)
                    \/ (axis = "vertical" /\ decrease) )
                  => /\ events' # <<>>
                     /\ \A i \in 1..Len(events') : events'[i].keys = {1}
               /\ ( (axis = "horizontal" /\ decrease)
                    \/ (axis = "vertical" /\ increase) )
                  => /\ events' # <<>>
                     /\ \A i \in 1..Len(events') : events'[i].keys = {0}

C20_SliderPolarity == [][C20_PolarityStep]_vars

\* C20 witness: the horizontal slider went up from 0 to 10 and bit 1 was
\* sent, after the vertical slider had gone up to 13
C20_Witness ==
    /\ op = "receive"
    /\ SliderReport(pkt_out, "horizontal") = <<10>>
    /\ Len(events) = 10
    /\ events[1] = [group |-> BAUM_TASO_HORIZONTAL_SLIDER, keys |-> {1}]
    /\ connected_modules[ID_TASO].prev_tvs = 13

\* the data of a DynamicDataBlock packet for a registered module of one of
\* the given types, as a one element sequence; <<>> for other packets and
\* for a packet without a status byte
ReportFor(pkt, types) ==
    IF /\ Len(pkt) > 6
       /\ Idx(pkt, 0) = BAUM_VP_DYNAMIC_DATA_BLOCK
       /\ PySlice(pkt, 2, 4) \in types
       /\ PySlice(pkt, 2, 6) \in DOMAIN connected_modules
    THEN <<PyTail(pkt, 6)>>
    ELSE <<>>

\* the highest of the bits 0x08, 0x04, 0x02, 0x01 set in a status byte, 0
\* when none is
TopCategory(stat) ==
    IF BitAnd(stat, 8) # 0 THEN 8
    ELSE IF BitAnd(stat, 4) # 0 THEN 4
    ELSE IF BitAnd(stat, 2) # 0 THEN 2
    ELSE IF BitAnd(stat, 1) # 0 THEN 1
    ELSE 0

\* the gesture groups of a change category of a module type
CategoryGroups(type, cat) ==
    IF type = TASO
    THEN CASE cat = 8 -> {BAUM_TASO_NC_KEYS, BAUM_TASO_SW_KEYS,
                          BAUM_TASO_SW_RELEASES}
           [] cat = 4 -> {BAUM_TASO_HORIZONTAL_SLIDER}
           [] cat = 2 -> {BAUM_TASO_VERTICAL_SLIDER}
           [] cat = 1 -> {BAUM_TASO_WHEEL}
           [] OTHER   -> {}
    ELSE CASE cat = 8 -> {BAUM_ROUTING_KEYS}
           [] cat = 4 -> {BAUM_DISPLAY_KEYS}
           [] cat = 2 -> {BAUM_WHEELS_PUSH}
           [] cat = 1 -> {BAUM_WHEELS_UP, BAUM_WHEELS_DOWN}
           [] OTHER   -> {}

\* the differential fields of a module and those of a change category
DifferentialFields ==
    {"cumul_d_keys", "prev_ths", "prev_tvs", "prev_tnckeys", "prev_tswkeys",
     "prev_sm_c_keys", "prev_tm_kcw_keys"}

CategoryFields(type, cat) ==
    IF type = TASO
    THEN CASE cat = 8 -> {"prev_tnckeys", "prev_tswkeys"}
           [] cat = 4 -> {"prev_ths"}
           [] cat = 2 -> {"prev_tvs"}
           [] OTHER   -> {}
    ELSE IF cat = 4 THEN {"cumul_d_keys"} ELSE {}

\* C21: of a main module or TASO packet only the change category of the
\* highest set status bit is decoded: every gesture sent belongs to it and
\* no differential field of another category changes
C21_PriorityStep ==
    LET rep == ReportFor(pkt_out', {VP_MAIN_80, VP_MAIN_64, TASO})
    IN  rep # <<>>
        => LET X    == PySlice(pkt_out', 2, 6)
               type == PySlice(pkt_out', 2, 4)
               cat  == TopCategory(rep[1][1])
           IN  /\ \A i \in 1..Len(events') :
                      events'[i].group \in CategoryGroups(type, cat)
               /\ \A f \in DifferentialFields \ CategoryFields(type, cat) :
                      connected_modules'[X][f] = connected_modules[X][f]

C21_StatusBitPriority == [][C21_PriorityStep]_vars

\* C21 witness: a TASO packet with the horizontal and the vertical bit set
\* and the positions 10 and 13 has moved the horizontal slider only
C21_Witness ==
    /\ op = "receive"
    /\ ReportFor(pkt_out, {TASO}) # <<>>
    /\ PyTail(pkt_out, 6)[1] = 6
    /\ Len(events) = 10
    /\ connected_modules[ID_TASO].prev_ths = 10
    /\ connected_modules[ID_TASO].prev_tvs = 0

\* the key field of a TASO key packet for a registered TASO unit, as a one
\* element sequence; <<>> for other packets
TasoKeyField(pkt) ==
    IF /\ ReportFor(pkt, {TASO}) # <<>>
       /\ BitAnd(Idx(pkt, 6), 8) # 0
       /\ Len(pkt) = 14
    THEN <<PySlice(pkt, 11, 14)>>
    ELSE <<>>

\* the bits of byte0 | byte1 << 8 | (byte2 & 7) << 12 and of byte2 >> 5
KeypadBits(tk) ==
    Bits(tk[1]) \cup { 8 + j : j \in Bits(tk[2]) }
                \cup { 12 + j : j \in Bits(tk[3] % 8) }

PushBits(tk) == Bits(tk[3] \div 32)

\* C22: a TASO key packet sends a keypad gesture only when the keypad
\* sub-mask differs from its previous value and is nonzero, a push gesture
\* when the push sub-mask changes to a nonzero value, a releases gesture
\* when it changes to zero, nothing for an unchanged sub-mask, and stores
\* both sub-masks
C22_KeysStep ==
    TasoKeyField(pkt_out') # <<>>
    => LET X  == PySlice(pkt_out', 2, 6)
           tk == TasoKeyField(pkt_out')[1]
           m  == connected_modules[X]
           nc == IF KeypadBits(tk) # Bits(m.prev_tnckeys)
                    /\ KeypadBits(tk) # {}
                 THEN << [group |-> BAUM_TASO_NC_KEYS,
                          keys  |-> KeypadBits(tk)] >>
                 ELSE <<>>
           sw == IF PushBits(tk) = Bits(m.prev_tswkeys) THEN <<>>
                 ELSE IF PushBits(tk) # {}
                 THEN << [group |-> BAUM_TASO_SW_KEYS,
                          keys  |-> PushBits(tk)] >>
                 ELSE << [group |-> BAUM_TASO_SW_RELEASES, keys |-> {0}] >>
       IN  /\ ~raised'
           /\ events' = nc \o sw
           /\ Bits(connected_modules'[X].prev_tnckeys) = KeypadBits(tk)
           /\ Bits(connected_modules'[X].prev_tswkeys) = PushBits(tk)

C22_KeysDifferential == [][C22_KeysStep]_vars

\* C22 witness: the push button was released while the keypad key went up
\* too: the one gesture is the releases gesture
C22_Witness ==
    /\ op = "receive"
    /\ TasoKeyField(pkt_out) = << <<0, 0, 0>> >>
    /\ events = << [group |-> BAUM_TASO_SW_RELEASES, keys |-> {0}] >>
    /\ connected_modules[ID_TASO].prev_tnckeys = 0
    /\ connected_modules[ID_TASO].prev_tswkeys = 0

\* C23: after a TASO key packet the keypad sub-mask is below 2^15, its bits
\* 0-7 are byte0, its bits 8-11 the low bits of byte1, its bits 12-14 the
\* low three bits of byte2, and the push sub-mask is bits 5-7 of byte2
C23_KeyMaskBits ==
    ( op = "receive" /\ TasoKeyField(pkt_out) # <<>> )
    => LET tk == TasoKeyField(pkt_out)[1]
           m  == connected_modules[PySlice(pkt_out, 2, 6)]
       IN  /\ m.prev_tnckeys < 2 ^ 15
           /\ Bits(m.prev_tnckeys) =
                  Bits(tk[1]) \cup { 8 + j : j \in Bits(tk[2] % 16) }
                              \cup { 12 + j : j \in Bits(tk[3] % 8) }
           /\ m.prev_tswkeys = tk[3] \div 32
           /\ \A i \in 1..Len(events) :
                  events[i].group = BAUM_TASO_NC_KEYS
                  => events[i].keys \subseteq 0..14

\* the number of data bytes a decoder reads for the change category that
\* the status byte selects
NeededBytes(type, data) ==
    IF data = <<>> THEN 1
    ELSE LET cat == TopCategory(data[1])
         IN  CASE type = VP_MAIN_80 ->
                    (IF cat = 8 THEN 18 ELSE IF cat = 4 THEN 8
                     ELSE IF cat = 2 THEN 7 ELSE 1)
               [] type = TASO ->
                    (IF cat = 8 THEN 8 ELSE IF cat = 4 THEN 5
                     ELSE IF cat = 2 THEN 4 ELSE IF cat = 1 THEN 3 ELSE 1)
               [] type = STATUS ->
                    (IF BitAnd(data[1], 2) # 0 THEN 3 ELSE 1)
               [] type = TELEPHONE ->
                    (IF BitAnd(data[1], 2) # 0 THEN 6
                     ELSE IF BitAnd(data[1], 1) # 0 THEN 3 ELSE 1)
               [] OTHER -> 0

\* a DynamicDataBlock packet for a registered module whose data ends before
\* the field of the selected change category
IsUnderrun(pkt) ==
    /\ Len(pkt) >= 6
    /\ Idx(pkt, 0) = BAUM_VP_DYNAMIC_DATA_BLOCK
    /\ PySlice(pkt, 2, 6) \in DOMAIN connected_modules
    /\ Len(pkt) - 6 < NeededBytes(PySlice(pkt, 2, 4), PyTail(pkt, 6))

\* C24: decoding a DynamicDataBlock whose data is too short raises no
\* error out of the dispatch, sends nothing, changes neither a module nor
\* the registry nor the module references and leaves the assembler in
\* Idle; every frame, also one that follows, is dispatched at its last byte
C24_UnderrunStep ==
    /\ IsUnderrun(pkt_out')
       => /\ ~raised'
          /\ events' = <<>>
          /\ written' = <<>>
          /\ connected_modules' = connected_modules
          /\ mainModule' = mainModule
          /\ statusModule' = statusModule
          /\ telephoneModule' = telephoneModule
          /\ bp_sm_state' = VPS_IDLE
    /\ ( op' = "receive" /\ wire' = <<>> )
       => ( pkt_out' = Tail(inj'.frame) /\ bp_sm_state' = VPS_IDLE )

C24_UnderrunCaught == [][C24_UnderrunStep]_vars

\* C24 witness: the TASO key packet with one byte of its key field has
\* been dropped, after the main module had accumulated display key 2
C24_Witness ==
    /\ op = "receive"
    /\ IsUnderrun(pkt_out)
    /\ PySlice(pkt_out, 2, 6) = ID_TASO
    /\ ~raised
    /\ bp_sm_state = VPS_IDLE
    /\ connected_modules[ID_MAIN_80].cumul_d_keys = 2

\* C25: decoding a DynamicDataBlock for module X leaves every other
\* registered module as it was, and the set of registered identities
C25_FrameStep ==
    ( /\ pkt_out' # <<>>
      /\ Idx(pkt_out', 0) = BAUM_VP_DYNAMIC_DATA_BLOCK
      /\ PySlice(pkt_out', 2, 6) \in DOMAIN connected_modules )
    => /\ DOMAIN connected_modules' = DOMAIN connected_modules
       /\ \A Y \in DOMAIN connected_modules \ {PySlice(pkt_out', 2, 6)} :
              \A f \in DifferentialFields :
                  connected_modules'[Y][f] = connected_modules[Y][f]

C25_FrameEffect == [][C25_FrameStep]_vars

\* C25 witness: the TASO unit has stored a new horizontal position while
\* the main module keeps its accumulated display key and the status unit
\* its previous key
C25_Witness ==
    /\ op = "receive"
    /\ ReportFor(pkt_out, {TASO}) # <<>>
    /\ connected_modules[ID_TASO].prev_ths = 10
    /\ connected_modules[ID_MAIN_80].cumul_d_keys = 2
    /\ connected_modules[ID_STATUS].prev_sm_c_keys = 1

\* the bytes p as they travel: every 0x1B twice
RECURSIVE Stuffed(_)
Stuffed(p) ==
    IF Len(p) = 0 THEN <<>>
    ELSE IF Len(p) = 1 THEN (IF p[1] = ESC THEN <<ESC, ESC>> ELSE p)
    ELSE Stuffed(SubSeq(p, 1, Len(p) \div 2))
         \o Stuffed(SubSeq(p, Len(p) \div 2 + 1, Len(p)))

\* the frame that carries the cells c to the module id: marker, info
\* type, payload length, then identity, 0x00, 0x00, count and the cells
IsCellFrame(f, id, c) ==
    f = <<ESC, BAUM_VP_DYNAMIC_DATA_BLOCK, Len(id) + 3 + Len(c)>>
        \o Stuffed(id \o <<0, 0, Len(c)>> \o c)

\* C26: with a main display of n cells, a status unit and a telephone unit
\* registered when display(cells) is called, the call with n+16 cells
\* writes exactly three frames, for main, status and telephone in this
\* order, with cells[0:n], cells[n:n+4] and cells[n+4:n+16]; with n cells
\* it writes the main display's frame only
C26_DisplayFrames ==
    ( /\ op = "display"
      /\ inside.display = "out"
      /\ called.main # None
      /\ called.status # None
      /\ called.telephone # None )
    => LET n == called.main.number_cells
       IN  /\ Len(shown) = n + 16
              => /\ ~raised
                 /\ Len(written) = 3
                 /\ IsCellFrame(written[1], called.main.module_id,
                                PySlice(shown, 0, n))
                 /\ IsCellFrame(written[2], called.status.module_id,
                                PySlice(shown, n, n + 4))
                 /\ IsCellFrame(written[3], called.telephone.module_id,
                                PySlice(shown, n + 4, n + 16))
           /\ Len(shown) = n
              => /\ ~raised
                 /\ Len(written) = 1
                 /\ IsCellFrame(written[1], called.main.module_id, shown)

\* C27: display(cells) with no main display registered but a status or a
\* telephone unit registered raises no error, and each of these units is
\* sent a packet of its own
C27_DisplayWithoutMain ==
    ( /\ op = "display"
      /\ inside.display = "out"
      /\ shown # <<>>
      /\ mainModule = None
      /\ statusModule # None \/ telephoneModule # None )
    => /\ ~raised
       /\ statusModule # None
          => \E i \in DOMAIN written :
                 SubSeq(written[i], 4, 7) = statusModule.module_id
       /\ telephoneModule # None
          => \E i \in DOMAIN written :
                 SubSeq(written[i], 4, 7) = telephoneModule.module_id

====
